---- MODULE Spec2Model ----
(***************************************************************************)
(* A model of the lehar-magazine static page generator (src/src/main.rs).  *)
(*                                                                         *)
(* Text is modelled character by character: a Rust String is a sequence of *)
(* one-character strings, so that escaping, date extraction and            *)
(* placeholder substitution are computed the way the code computes them.   *)
(* An Option<T> is a sequence of length at most one: None is <<>> and      *)
(* Some(x) is <<x>>.                                                       *)
(***************************************************************************)
EXTENDS Integers, Sequences, FiniteSets, TLC

VARIABLES
  pc,            \* position of main: the statement that runs next
  files,         \* the file system: metadata.json, index.template.html, index.html
  meta,          \* Option<Metadata>: the parsed metadata (main.rs:30)
  sorted,        \* Option<Vec<Issue>>: the result of sort_issues (main.rs:31)
  og_tags,       \* main.rs:34
  issue_cards,   \* main.rs:40
  logo_html,     \* main.rs:42
  final_html,    \* Option<String>: main.rs:49
  stdout,        \* the lines printed by println! (main.rs:56)
  steps,         \* history: the steps main has carried out, in order
  text,          \* the argument of escape_html when it is studied on its own
  escaped        \* the successive results of escape_html applied to text

vars == <<pc, files, meta, sorted, og_tags, issue_cards, logo_html,
          final_html, stdout, steps, text, escaped>>

mainVars == <<pc, files, meta, sorted, og_tags, issue_cards, logo_html,
              final_html, stdout, steps>>

-----------------------------------------------------------------------------
(* Bounds of the model.                                                    *)

MaxLen == 3        \* longest text given to escape_html on its own
MaxSortIssues == 3 \* longest issue list given to sort_issues on its own
MaxIssues == 2     \* longest issue list in a metadata.json of a whole run

-----------------------------------------------------------------------------
(* Strings.                                                                *)

None == <<>>
Some(x) == <<x>>

\* TRUE iff pat occurs in s starting at index i.
MatchAt(s, pat, i) ==
  /\ i >= 1
  /\ i + Len(pat) - 1 <= Len(s)
  /\ \A k \in 1..Len(pat) : s[i + k - 1] = pat[k]

\* The smallest index >= i at which pat occurs in s, or 0.
FindFrom(s, pat, i) ==
  LET hits == {j \in i..(Len(s) - Len(pat) + 1) : MatchAt(s, pat, j)}
  IN  IF hits = {} THEN 0 ELSE CHOOSE j \in hits : \A h \in hits : j <= h

RECURSIVE ReplaceFrom(_, _, _, _)
ReplaceFrom(s, pat, rep, i) ==
  LET j == FindFrom(s, pat, i)
  IN  IF j = 0
      THEN SubSeq(s, i, Len(s))
      ELSE SubSeq(s, i, j - 1) \o rep \o ReplaceFrom(s, pat, rep, j + Len(pat))

\* str::replace: every non-overlapping occurrence of pat, found left to
\* right, is replaced by rep; the replacement text is not scanned again.
Replace(s, pat, rep) == ReplaceFrom(s, pat, rep, 1)

\* str::trim_end_matches(c): all trailing occurrences of c are removed.
RECURSIVE trim_end_matches(_, _)
trim_end_matches(s, c) ==
  IF s # <<>> /\ s[Len(s)] = c
  THEN trim_end_matches(SubSeq(s, 1, Len(s) - 1), c)
  ELSE s

\* [String]::join(sep)
RECURSIVE Join(_, _)
Join(ss, sep) ==
  IF ss = <<>> THEN <<>>
  ELSE IF Len(ss) = 1 THEN ss[1]
  ELSE ss[1] \o sep \o Join(Tail(ss), sep)

-----------------------------------------------------------------------------
(* escape_html (main.rs:156-162).                                          *)

Amp  == <<"&","a","m","p",";">>
Lt   == <<"&","l","t",";">>
Gt   == <<"&","g","t",";">>
Quot == <<"&","q","u","o","t",";">>
Apos == <<"&","#","x","2","7",";">>

\* The same five replacements with the ampersand handled last, so that the
\* ampersands of the entities already emitted are encoded again.
escape_html_AmpLast(t) ==
  Replace(Replace(Replace(Replace(Replace(t,
    <<"<">>, Lt), <<">">>, Gt), <<"\"">>, Quot), <<"'">>, Apos), <<"&">>, Amp)

escape_html(t) ==
  Replace(Replace(Replace(Replace(Replace(t,
    <<"&">>, Amp), <<"<">>, Lt), <<">">>, Gt), <<"\"">>, Quot), <<"'">>, Apos)

-----------------------------------------------------------------------------
(* sort_issues (main.rs:60-84).                                            *)

AsciiDigits == {"0","1","2","3","4","5","6","7","8","9"}

\* \d of the regex crate is Unicode-aware: it matches every decimal digit,
\* not only the ASCII ones.  "U+0A68" stands for the single character
\* GURMUKHI DIGIT TWO, a decimal digit that str::parse does not accept.
RegexDigits == AsciiDigits \cup {"U+0A68"}

DigitValue ==
  "0" :> 0 @@ "1" :> 1 @@ "2" :> 2 @@ "3" :> 3 @@ "4" :> 4 @@
  "5" :> 5 @@ "6" :> 6 @@ "7" :> 7 @@ "8" :> 8 @@ "9" :> 9

\* The regex (\d{4})-(\d{2})-(\d{2}) matches s at index i.
DateAt(s, i) ==
  /\ i >= 1
  /\ i + 9 <= Len(s)
  /\ \A k \in {0, 1, 2, 3, 5, 6, 8, 9} : s[i + k] \in RegexDigits
  /\ s[i + 4] = "-"
  /\ s[i + 7] = "-"

\* Regex::captures: the capture groups of the leftmost match, or None.
captures(s) ==
  LET hits == {i \in 1..(Len(s) - 9) : DateAt(s, i)}
  IN  IF hits = {} THEN None
      ELSE LET i == CHOOSE j \in hits : \A h \in hits : j <= h
           IN  Some(<<SubSeq(s, i, i + 3), SubSeq(s, i + 5, i + 6), SubSeq(s, i + 8, i + 9)>>)

RECURSIVE DecimalValue(_)
DecimalValue(ds) ==
  IF ds = <<>> THEN 0
  ELSE 10 * DecimalValue(SubSeq(ds, 1, Len(ds) - 1)) + DigitValue[ds[Len(ds)]]

\* str::parse::<i32>() and ::<u32>() on a non-empty run of \d characters of
\* at most four digits: Ok only if every digit is an ASCII digit.
parse(ds) ==
  IF \A k \in 1..Len(ds) : ds[k] \in AsciiDigits THEN Some(DecimalValue(ds)) ELSE None

unwrap_or(opt, default) == IF opt = None THEN default ELSE opt[1]

get_date_tuple(filename) ==
  LET caps == captures(filename)
  IN  IF caps # None
      THEN <<unwrap_or(parse(caps[1][1]), 0),
             unwrap_or(parse(caps[1][2]), 1),
             unwrap_or(parse(caps[1][3]), 1)>>
      ELSE <<0, 1, 1>>

\* Ord::cmp on (i32, u32, u32): lexicographic.
cmp(x, y) ==
  IF x[1] # y[1] THEN (IF x[1] < y[1] THEN "Less" ELSE "Greater")
  ELSE IF x[2] # y[2] THEN (IF x[2] < y[2] THEN "Less" ELSE "Greater")
  ELSE IF x[3] # y[3] THEN (IF x[3] < y[3] THEN "Less" ELSE "Greater")
  ELSE "Equal"

\* The comparator with its operands the other way round: oldest first.
compare_Ascending(a, b) == cmp(get_date_tuple(a.pdf), get_date_tuple(b.pdf))

\* The closure given to sort_by: newest first.
compare(a, b) == cmp(get_date_tuple(b.pdf), get_date_tuple(a.pdf))

\* x enters an ordered vector before the first element it is Less than, and
\* so after every element it is Equal to.
Insert(acc, x) ==
  LET later == {i \in 1..Len(acc) : compare(x, acc[i]) = "Less"}
  IN  IF later = {} THEN Append(acc, x)
      ELSE LET p == CHOOSE j \in later : \A h \in later : j <= h
           IN  SubSeq(acc, 1, p - 1) \o <<x>> \o SubSeq(acc, p, Len(acc))

\* slice::sort_by is a stable sort: the elements are taken in input order.
RECURSIVE sort_by(_)
sort_by(v) ==
  IF v = <<>> THEN <<>> ELSE Insert(sort_by(SubSeq(v, 1, Len(v) - 1)), v[Len(v)])

sort_issues(issues) == sort_by(issues)

-----------------------------------------------------------------------------
(* The literal text of the format strings and of the placeholder tokens.   *)

MetaOpen ==
  <<"<","m","e","t","a"," ">>
AttrOpen ==
  <<"=","\"">>
ContentOpen ==
  <<"\""," ","c","o","n","t","e","n","t","=","\"">>
TagClose ==
  <<"\"",">">>
Indent ==
  <<"\n"," "," "," "," ">>
Property ==
  <<"p","r","o","p","e","r","t","y">>
Name ==
  <<"n","a","m","e">>
OgTitle ==
  <<"o","g",":","t","i","t","l","e">>
OgDescription ==
  <<"o","g",":","d","e","s","c","r","i","p","t","i","o","n">>
OgImage ==
  <<"o","g",":","i","m","a","g","e">>
OgSiteName ==
  <<"o","g",":","s","i","t","e","_","n","a","m","e">>
OgType ==
  <<"o","g",":","t","y","p","e">>
OgLocale ==
  <<"o","g",":","l","o","c","a","l","e">>
TwitterCard ==
  <<"t","w","i","t","t","e","r",":","c","a","r","d">>
TwitterImage ==
  <<"t","w","i","t","t","e","r",":","i","m","a","g","e">>
Description ==
  <<"d","e","s","c","r","i","p","t","i","o","n">>
Website ==
  <<"w","e","b","s","i","t","e">>
PaIn ==
  <<"p","a","_","I","N">>
Summary ==
  <<"s","u","m","m","a","r","y">>
SummaryLargeImage ==
  <<"s","u","m","m","a","r","y","_","l","a","r","g","e","_","i","m","a","g","e">>
TitleSep ==
  <<" ","|"," ">>
Slash ==
  <<"/">>
Newline ==
  <<"\n">>
EmptyState ==
  <<"<","d","i","v"," ","c","l","a","s","s","=","\"","e","m","p","t","y","-","s","t","a","t",
    "e","\"",">","\n"," "," "," "," ","<","h","2",">","N","o"," ","I","s","s","u","e","s"," ",
    "A","v","a","i","l","a","b","l","e","<","/","h","2",">","\n"," "," "," "," ","<","p",">",
    "C","h","e","c","k"," ","b","a","c","k"," ","s","o","o","n"," ","f","o","r"," ","n","e","w",
    " ","c","o","n","t","e","n","t","!","<","/","p",">","\n","<","/","d","i","v",">">>
DefaultCardDescription ==
  <<"D","o","w","n","l","o","a","d"," ","t","h","i","s"," ","i","s","s","u","e"," ","t","o"," ",
    "r","e","a","d"," ","t","h","e"," ","f","u","l","l"," ","c","o","n","t","e","n","t",".">>
CardImgOpen ==
  <<"<","d","i","v"," ","c","l","a","s","s","=","\"","i","s","s","u","e","-","c","a","r","d",
    "\"",">","\n"," "," "," "," ","<","d","i","v"," ","c","l","a","s","s","=","\"","i","m","a",
    "g","e","-","c","o","n","t","a","i","n","e","r","\"",">","\n"," "," "," "," "," "," "," ",
    " ","<","i","m","g"," ","s","r","c","=","\"">>
CardAltOpen ==
  <<"\""," ","a","l","t","=","\"">>
CardTitleOpen ==
  <<"\""," ","l","o","a","d","i","n","g","=","\"","l","a","z","y","\"",">","\n"," "," "," "," ",
    "<","/","d","i","v",">","\n"," "," "," "," ","<","d","i","v"," ","c","l","a","s","s","=",
    "\"","c","o","n","t","e","n","t","\"",">","\n"," "," "," "," "," "," "," "," ","<","h","3",
    ">">>
CardDescOpen ==
  <<"<","/","h","3",">","\n"," "," "," "," "," "," "," "," ","<","p",">">>
CardPdfOpen ==
  <<"<","/","p",">","\n"," "," "," "," "," "," "," "," ","<","a"," ","h","r","e","f","=","\"">>
CardClose ==
  <<"\""," ","c","l","a","s","s","=","\"","d","o","w","n","l","o","a","d","-","b","t","n","\"",
    " ","d","o","w","n","l","o","a","d",">","D","o","w","n","l","o","a","d"," ","P","D","F","<",
    "/","a",">","\n"," "," "," "," ","<","/","d","i","v",">","\n","<","/","d","i","v",">">>
LogoImgOpen ==
  <<"<","i","m","g"," ","s","r","c","=","\"">>
LogoAltOpen ==
  <<"\""," ","a","l","t","=","\"">>
LogoClose ==
  <<" ","L","o","g","o","\"",">">>
OG_TAGS ==
  <<"{","{","O","G","_","T","A","G","S","}","}">>
ISSUE_CARDS ==
  <<"{","{","I","S","S","U","E","_","C","A","R","D","S","}","}">>
PAGE_TITLE ==
  <<"{","{","P","A","G","E","_","T","I","T","L","E","}","}">>
LOGO ==
  <<"{","{","L","O","G","O","}","}">>

-----------------------------------------------------------------------------
(* The HTML fragments.                                                     *)

\* One line of a format string: <meta {attr}="{key}" content="{content}">
MetaTag(attr, key, content) ==
  MetaOpen \o attr \o AttrOpen \o key \o ContentOpen \o content \o TagClose

\* One card of build_issue_cards (main.rs:94-114).
IssueCard(issue) ==
  LET description == unwrap_or(issue.description, DefaultCardDescription)
  IN  CardImgOpen \o escape_html(issue.cover)
        \o CardAltOpen \o escape_html(issue.title)
        \o CardTitleOpen \o escape_html(issue.title)
        \o CardDescOpen \o escape_html(description)
        \o CardPdfOpen \o escape_html(issue.pdf)
        \o CardClose

\* The cards in the reverse of the order given.
build_issue_cards_Reversed(issues) ==
  IF issues = <<>> THEN EmptyState
  ELSE Join([i \in 1..Len(issues) |-> IssueCard(issues[Len(issues) + 1 - i])], Newline)

\* main.rs:86-116
build_issue_cards(issues) ==
  IF issues = <<>> THEN EmptyState
  ELSE Join([i \in 1..Len(issues) |-> IssueCard(issues[i])], Newline)

\* The description of the issue is ignored in favour of the site's.
format_og_tags_SiteDescription(site_meta, issue) ==
  LET title == escape_html(issue.title)
      site  == escape_html(site_meta.site_name)
      desc  == escape_html(site_meta.default_description)
      base  == trim_end_matches(site_meta.base_url, "/")
      cover == escape_html(issue.cover)
  IN  Join(<<MetaTag(Property, OgTitle, title \o TitleSep \o site),
             MetaTag(Property, OgDescription, desc),
             MetaTag(Property, OgImage, base \o Slash \o cover),
             MetaTag(Property, OgSiteName, site),
             MetaTag(Property, OgType, Website),
             MetaTag(Property, OgLocale, PaIn),
             MetaTag(Name, TwitterCard, SummaryLargeImage),
             MetaTag(Name, TwitterImage, base \o Slash \o cover),
             MetaTag(Name, Description, desc)>>, Indent)

\* main.rs:118-139
format_og_tags(site_meta, issue) ==
  LET desc0 == unwrap_or(issue.description, site_meta.default_description)
      title == escape_html(issue.title)
      site  == escape_html(site_meta.site_name)
      desc  == escape_html(desc0)
      base  == trim_end_matches(site_meta.base_url, "/")
      cover == escape_html(issue.cover)
  IN  Join(<<MetaTag(Property, OgTitle, title \o TitleSep \o site),
             MetaTag(Property, OgDescription, desc),
             MetaTag(Property, OgImage, base \o Slash \o cover),
             MetaTag(Property, OgSiteName, site),
             MetaTag(Property, OgType, Website),
             MetaTag(Property, OgLocale, PaIn),
             MetaTag(Name, TwitterCard, SummaryLargeImage),
             MetaTag(Name, TwitterImage, base \o Slash \o cover),
             MetaTag(Name, Description, desc)>>, Indent)

\* The reduced tag set with the large-image card of the other variant.
format_default_og_tags_LargeCard(site_meta) ==
  LET site == escape_html(site_meta.site_name)
      desc == escape_html(site_meta.default_description)
  IN  Join(<<MetaTag(Property, OgTitle, site),
             MetaTag(Property, OgDescription, desc),
             MetaTag(Property, OgSiteName, site),
             MetaTag(Property, OgType, Website),
             MetaTag(Property, OgLocale, PaIn),
             MetaTag(Name, TwitterCard, SummaryLargeImage),
             MetaTag(Name, Description, desc)>>, Indent)

\* main.rs:141-153
format_default_og_tags(site_meta) ==
  LET site == escape_html(site_meta.site_name)
      desc == escape_html(site_meta.default_description)
  IN  Join(<<MetaTag(Property, OgTitle, site),
             MetaTag(Property, OgDescription, desc),
             MetaTag(Property, OgSiteName, site),
             MetaTag(Property, OgType, Website),
             MetaTag(Property, OgLocale, PaIn),
             MetaTag(Name, TwitterCard, Summary),
             MetaTag(Name, Description, desc)>>, Indent)

\* main.rs:34-38
render_og_tags(site_meta, issues) ==
  IF issues # <<>>
  THEN format_og_tags(site_meta, issues[1])
  ELSE format_default_og_tags(site_meta)

\* main.rs:42-46
render_logo(site_meta) ==
  IF site_meta.logo # <<>>
  THEN LogoImgOpen \o site_meta.logo \o LogoAltOpen \o site_meta.site_name \o LogoClose
  ELSE <<>>

\* main.rs:49-53: four replacements, each applied to the result of the one
\* before it.
substitute(html_template, og, cards, page_title, logo) ==
  Replace(Replace(Replace(Replace(html_template,
    OG_TAGS, og), ISSUE_CARDS, cards), PAGE_TITLE, page_title), LOGO, logo)

-----------------------------------------------------------------------------
(* The texts, issues, sites and templates the model runs on.               *)

IssueA ==
  [title |-> <<"A">>,
   pdf |-> <<"i","/","2","0","2","4","-","0","1","-","0","5","-","s",".","p","d","f">>,
   cover |-> <<"a",".","j","p","g">>,
   description |-> None]

IssueB ==
  [title |-> <<"B","<","b",">">>,
   pdf |-> <<"i","/","2","0","2","4","-","0","6","-","1","0",".","p","d","f">>,
   cover |-> <<"b",".","j","p","g">>,
   description |-> Some(<<"S","&","s">>)]

IssueC ==
  [title |-> <<"{","{","L","O","G","O","}","}">>,
   pdf |-> <<"x",".","p","d","f">>,
   cover |-> <<"c","\"">>,
   description |-> Some(<<>>)]

SitePlain ==
  [site_name |-> <<"P","T">>,
   default_description |-> <<"N","e","w","s">>,
   base_url |-> <<"u",".","i","o","/">>,
   logo |-> <<>>]

SiteLogo ==
  [site_name |-> <<"P","&","T">>,
   default_description |-> <<"N","\"">>,
   base_url |-> <<"u",".","i","o","/","/">>,
   logo |-> <<"l",".","p","n","g">>]

SiteToken ==
  [site_name |-> <<"{","{","L","O","G","O","}","}">>,
   default_description |-> <<"'","N","'">>,
   base_url |-> <<"u",".","i","o">>,
   logo |-> <<"m",".","p","n","g">>]

SiteMarkup ==
  [site_name |-> <<"<","P","T",">">>,
   default_description |-> <<"N">>,
   base_url |-> <<"u","\"","/">>,
   logo |-> <<"l","\"",">","<","i","m","g"," ","s","r","c","=","\"","m">>]

TemplateFull ==
  <<"<","t",">","{","{","P","A","G","E","_","T","I","T","L","E","}","}","<","/","t",">","{",
    "{","O","G","_","T","A","G","S","}","}","{","{","L","O","G","O","}","}","{","{","I","S",
    "S","U","E","_","C","A","R","D","S","}","}","{","{","L","O","G","O","}","}">>

TemplateTitleOnly ==
  <<"<","t",">","{","{","P","A","G","E","_","T","I","T","L","E","}","}","<","/","t",">">>

TemplatePlain ==
  <<"<","p",">","{","L","O","G","O","}","<","/","p",">">>

SortJan ==
  [title |-> <<"J">>,
   pdf |-> <<"2","0","2","4","-","0","1","-","0","5">>,
   cover |-> <<"c">>,
   description |-> None]

SortJanAgain ==
  [title |-> <<"K">>,
   pdf |-> <<"a","2","0","2","4","-","0","1","-","0","5",".","p","d","f">>,
   cover |-> <<"c">>,
   description |-> None]

SortJune ==
  [title |-> <<"U">>,
   pdf |-> <<"1","2","0","2","4","-","0","6","-","1","0">>,
   cover |-> <<"c">>,
   description |-> None]

SortNoDate ==
  [title |-> <<"N">>,
   pdf |-> <<"2","0","2","4","-","6","-","1","0">>,
   cover |-> <<"c">>,
   description |-> None]

SortNoDateAgain ==
  [title |-> <<"M">>,
   pdf |-> <<"x",".","p","d","f">>,
   cover |-> <<"c">>,
   description |-> None]

SortZero ==
  [title |-> <<"Z">>,
   pdf |-> <<"0","0","0","0","-","0","0","-","0","0">>,
   cover |-> <<"c">>,
   description |-> None]

SortYearOne ==
  [title |-> <<"Y">>,
   pdf |-> <<"0","0","0","0","-","0","1","-","0","1">>,
   cover |-> <<"c">>,
   description |-> None]


SortGurmukhi ==
  [title |-> <<"G">>,
   pdf |-> <<"U+0A68","0","2","4","-","0","1","-","0","5">>,
   cover |-> <<"c">>,
   description |-> None]

-----------------------------------------------------------------------------
(* The inputs of the model.                                                *)

\* All sequences over S of length at most n.
RECURSIVE SeqsUpTo(_, _)
SeqsUpTo(S, n) ==
  IF n = 0 THEN {<<>>}
  ELSE LET shorter == SeqsUpTo(S, n - 1)
       IN  shorter \cup {Append(s, x) : s \in {r \in shorter : Len(r) = n - 1}, x \in S}

IssuePool == {IssueA, IssueB, IssueC}
SitePool == {SitePlain, SiteLogo, SiteToken, SiteMarkup}
TemplatePool == {TemplateFull, TemplateTitleOnly, TemplatePlain}
SortPool == {SortJan, SortJanAgain, SortJune, SortNoDate, SortNoDateAgain,
             SortZero, SortYearOne, SortGurmukhi}
EscapeAlphabet == {"&", "<", ">", "\"", "'", "a", ";"}

\* A metadata.json that deserializes into Metadata.
Document(site_meta, issues) ==
  [valid |-> TRUE, value |-> [site_meta |-> site_meta, issues |-> issues]]

\* A metadata.json that is not JSON or does not match the schema.
Malformed == [valid |-> FALSE]

\* The index.html left by an earlier run.
OldIndex == <<"o","l","d">>

MetadataFiles ==
  {None, Some(Malformed)}
    \cup {Some(Document(s, is)) : s \in SitePool, is \in SeqsUpTo(IssuePool, MaxIssues)}

TemplateFiles == {None} \cup {Some(t) : t \in TemplatePool}

-----------------------------------------------------------------------------
(* main (main.rs:28-58).  A file is an Option<String>: None when it is     *)
(* missing or unreadable.                                                  *)

Step(name, ok) == [step |-> name, ok |-> ok]

Idle ==
  /\ og_tags = <<>>
  /\ issue_cards = <<>>
  /\ logo_html = <<>>
  /\ final_html = None
  /\ stdout = <<>>

Init ==
  /\ pc = "read_metadata"
  /\ files \in [metadata : MetadataFiles, template : TemplateFiles, index : {Some(OldIndex)}]
  /\ meta = None
  /\ sorted = None
  /\ Idle
  /\ steps = <<>>
  /\ text = <<>>
  /\ escaped = <<>>

\* main.rs:29: fs::read_to_string("metadata.json")?  The text read is parsed
\* by the next statement; it lives in no variable of its own here because
\* the file cannot change in between.
ReadMetadata ==
  /\ pc = "read_metadata"
  /\ \/ /\ files.metadata # None
        /\ pc' = "parse"
        /\ steps' = Append(steps, Step("read_metadata", TRUE))
     \/ /\ files.metadata = None
        /\ pc' = "error"
        /\ steps' = Append(steps, Step("read_metadata", FALSE))
  /\ UNCHANGED <<files, meta, sorted, og_tags, issue_cards, logo_html, final_html,
                 stdout, text, escaped>>

\* serde_json::from_str::<Metadata>: Ok for a document that matches the schema.
from_str(data) == IF data.valid THEN Some(data.value) ELSE None

\* main.rs:30
Parse ==
  /\ pc = "parse"
  /\ LET parsed == from_str(files.metadata[1])
     IN  \/ /\ parsed # None
            /\ meta' = parsed
            /\ pc' = "sort"
            /\ steps' = Append(steps, Step("parse", TRUE))
         \/ /\ parsed = None
            /\ meta' = meta
            /\ pc' = "error"
            /\ steps' = Append(steps, Step("parse", FALSE))
  /\ UNCHANGED <<files, sorted, og_tags, issue_cards, logo_html, final_html,
                 stdout, text, escaped>>

\* main.rs:31
Sort ==
  /\ pc = "sort"
  /\ sorted' = Some(sort_issues(meta[1].issues))
  /\ pc' = "render"
  /\ steps' = Append(steps, Step("sort", TRUE))
  /\ UNCHANGED <<files, meta, og_tags, issue_cards, logo_html, final_html,
                 stdout, text, escaped>>

\* main.rs:34-46
Render ==
  /\ pc = "render"
  /\ og_tags' = render_og_tags(meta[1].site_meta, sorted[1])
  /\ issue_cards' = build_issue_cards(sorted[1])
  /\ logo_html' = render_logo(meta[1].site_meta)
  /\ pc' = "read_template"
  /\ steps' = Append(steps, Step("render", TRUE))
  /\ UNCHANGED <<files, meta, sorted, final_html, stdout, text, escaped>>

\* A template that cannot be read is taken to be empty and the run goes on.
ReadTemplate_IgnoreError ==
  /\ pc = "read_template"
  /\ \/ /\ files.template # None
        /\ final_html' = Some(substitute(files.template[1], og_tags, issue_cards,
                                         meta[1].site_meta.site_name, logo_html))
        /\ pc' = "write"
        /\ steps' = Append(steps, Step("read_template", TRUE))
     \/ /\ files.template = None
        /\ final_html' = Some(<<>>)
        /\ pc' = "write"
        /\ steps' = Append(steps, Step("read_template", FALSE))
  /\ UNCHANGED <<files, meta, sorted, og_tags, issue_cards, logo_html,
                 stdout, text, escaped>>

\* main.rs:48-53: the template is read and the placeholders are substituted;
\* page_title is the site name as it is (main.rs:41).
ReadTemplate ==
  /\ pc = "read_template"
  /\ \/ /\ files.template # None
        /\ final_html' = Some(substitute(files.template[1], og_tags, issue_cards,
                                         meta[1].site_meta.site_name, logo_html))
        /\ pc' = "write"
        /\ steps' = Append(steps, Step("read_template", TRUE))
     \/ /\ files.template = None
        /\ final_html' = final_html
        /\ pc' = "error"
        /\ steps' = Append(steps, Step("read_template", FALSE))
  /\ UNCHANGED <<files, meta, sorted, og_tags, issue_cards, logo_html,
                 stdout, text, escaped>>

\* main.rs:55: fs::write("index.html", final_html)?  It creates or truncates
\* the file and then writes all of it; when it fails the file is as it was
\* (it could not be opened) or truncated (the write itself failed).
WriteOutput ==
  /\ pc = "write"
  /\ \/ /\ files' = [files EXCEPT !.index = final_html]
        /\ pc' = "print"
        /\ steps' = Append(steps, Step("write", TRUE))
     \/ /\ \E left \in {files.index, Some(<<>>)} : files' = [files EXCEPT !.index = left]
        /\ pc' = "error"
        /\ steps' = Append(steps, Step("write", FALSE))
  /\ UNCHANGED <<meta, sorted, og_tags, issue_cards, logo_html, final_html,
                 stdout, text, escaped>>

\* main.rs:56-57
PrintSuccess ==
  /\ pc = "print"
  /\ stdout' = Append(stdout, [line |-> "Successfully generated index.html",
                               issues |-> Len(sorted[1])])
  /\ pc' = "done"
  /\ UNCHANGED <<files, meta, sorted, og_tags, issue_cards, logo_html, final_html,
                 steps, text, escaped>>

Next ==
  \/ ReadMetadata
  \/ Parse
  \/ Sort
  \/ Render
  \/ ReadTemplate
  \/ WriteOutput
  \/ PrintSuccess

Spec == Init /\ [][Next]_vars

-----------------------------------------------------------------------------
(* sort_issues on its own: main stands at main.rs:31 with a parsed         *)
(* metadata whose issues range over the lists of SortPool.                 *)

InitSort ==
  /\ pc = "sort"
  /\ \E is \in SeqsUpTo(SortPool, MaxSortIssues) :
       /\ files = [metadata |-> Some(Document(SitePlain, is)),
                   template |-> Some(TemplatePlain),
                   index |-> Some(OldIndex)]
       /\ meta = Some([site_meta |-> SitePlain, issues |-> is])
  /\ sorted = None
  /\ Idle
  /\ steps = <<Step("read_metadata", TRUE), Step("parse", TRUE)>>
  /\ text = <<>>
  /\ escaped = <<>>

NextSort == Sort

SpecSort == InitSort /\ [][NextSort]_vars

-----------------------------------------------------------------------------
(* escape_html on its own: it is applied to a text and then to its own     *)
(* result.                                                                 *)

InitEscape ==
  /\ pc = "escape"
  /\ files = [metadata |-> None, template |-> None, index |-> None]
  /\ meta = None
  /\ sorted = None
  /\ Idle
  /\ steps = <<>>
  /\ text \in SeqsUpTo(EscapeAlphabet, MaxLen)
  /\ escaped = <<>>

Escape ==
  /\ pc = "escape"
  /\ escaped = <<>>
  /\ escaped' = <<escape_html(text)>>
  /\ UNCHANGED <<mainVars, text>>

EscapeAgain ==
  /\ pc = "escape"
  /\ Len(escaped) = 1
  /\ escaped' = Append(escaped, escape_html(escaped[1]))
  /\ UNCHANGED <<mainVars, text>>

NextEscape == Escape \/ EscapeAgain

SpecEscape == InitEscape /\ [][NextEscape]_vars

-----------------------------------------------------------------------------
(* Vocabulary of the properties.                                           *)

Range(s) == {s[i] : i \in 1..Len(s)}

\* The number of places of s at which pat occurs.
Count(s, pat) == Cardinality({i \in 1..Len(s) : MatchAt(s, pat, i)})

Contains(s, pat) == \E i \in 1..(Len(s) + 1) : MatchAt(s, pat, i)

\* The elements of s that satisfy the Boolean function keep, in order.
RECURSIVE Filter(_, _)
Filter(s, keep) ==
  IF s = <<>> THEN <<>>
  ELSE (IF keep[Head(s)] THEN <<Head(s)>> ELSE <<>>) \o Filter(Tail(s), keep)

\* The concatenation of a sequence of sequences.
RECURSIVE Flatten(_)
Flatten(ss) == IF ss = <<>> THEN <<>> ELSE Head(ss) \o Flatten(Tail(ss))

\* The entity that stands for one character, character by character.
EntityOf(c) ==
  CASE c = "&"  -> <<"&","a","m","p",";">>
    [] c = "<"  -> <<"&","l","t",";">>
    [] c = ">"  -> <<"&","g","t",";">>
    [] c = "\"" -> <<"&","q","u","o","t",";">>
    [] c = "'"  -> <<"&","#","x","2","7",";">>
    [] OTHER    -> <<c>>

Escaped(t) == Flatten([i \in 1..Len(t) |-> EntityOf(t[i])])

SpecialChars == {"&", "<", ">", "\"", "'"}

Specials(t) == {i \in 1..Len(t) : t[i] \in SpecialChars}

\* b without its trailing slashes.
WithoutTrailingSlashes(b) ==
  LET n == CHOOSE k \in 0..Len(b) :
             /\ k = 0 \/ b[k] # "/"
             /\ \A j \in (k + 1)..Len(b) : b[j] = "/"
  IN  SubSeq(b, 1, n)

\* The sort key is at least / equal to another, as dates.
KeyGeq(x, y) ==
  \/ x[1] > y[1]
  \/ x[1] = y[1] /\ x[2] > y[2]
  \/ x[1] = y[1] /\ x[2] = y[2] /\ x[3] >= y[3]

KeyOf(issue) == get_date_tuple(issue.pdf)

\* The pdf field holds a DDDD-DD-DD substring.
Dated(issue) == \E i \in 1..Len(issue.pdf) : DateAt(issue.pdf, i)

HasRun(name) == \E i \in 1..Len(steps) : steps[i] = Step(name, TRUE)

Site == meta[1].site_meta

-----------------------------------------------------------------------------
(* Properties of escape_html.                                              *)

\* C4: escape_html replaces each & < > " ' by its entity and leaves every
\* other character as it is and in order; its result holds no raw < > " '
\* and an ampersand only as the first character of an entity, one for each
\* special character of the input; applied to its own result it encodes
\* every ampersand again, so it is not idempotent.
C4_EscapeHtml ==
  /\ Len(escaped) >= 1 =>
       /\ escaped[1] = Escaped(text)
       /\ \A i \in 1..Len(escaped[1]) : escaped[1][i] \notin {"<", ">", "\"", "'"}
       /\ \A i \in 1..Len(escaped[1]) :
            escaped[1][i] = "&" =>
              \E e \in {Amp, Lt, Gt, Quot, Apos} : MatchAt(escaped[1], e, i)
       /\ Count(escaped[1], <<"&">>) = Cardinality(Specials(text))
  /\ Len(escaped) = 2 =>
       /\ escaped[2] = Flatten([i \in 1..Len(escaped[1]) |->
                                  IF escaped[1][i] = "&" THEN Amp ELSE <<escaped[1][i]>>])
       /\ Count(escaped[2], Amp) = Count(escaped[1], <<"&">>)
       /\ (escaped[2] = escaped[1]) <=> (Specials(text) = {})

C4_Witness ==
  /\ text = <<"<", "&", "a">>
  /\ Len(escaped) = 2
  /\ escaped[1] = Lt \o Amp \o <<"a">>
  /\ escaped[2] # escaped[1]

-----------------------------------------------------------------------------
(* Properties of sort_issues.                                              *)

\* C1: sort_issues returns a permutation of its input (duplicates kept),
\* ordered by descending (year, month, day) key of the pdf field, and issues
\* with equal keys keep their relative input order.
C1_SortIssues ==
  sorted # None =>
    LET input  == meta[1].issues
        output == sorted[1]
    IN  /\ Len(output) = Len(input)
        /\ \A x \in Range(input) \cup Range(output) :
             Cardinality({i \in 1..Len(output) : output[i] = x})
               = Cardinality({i \in 1..Len(input) : input[i] = x})
        /\ \A i, j \in 1..Len(output) :
             i < j => KeyGeq(KeyOf(output[i]), KeyOf(output[j]))
        /\ \A k \in {KeyOf(x) : x \in Range(input)} :
             LET same == [x \in Range(input) |-> KeyOf(x) = k]
             IN  Filter(output, same) = Filter(input, same)

C1_Witness ==
  /\ sorted # None
  /\ meta[1].issues = <<SortJan, SortJune, SortJanAgain>>
  /\ sorted[1] = <<SortJune, SortJan, SortJanAgain>>

\* C2: in the output of sort_issues every issue without a DDDD-DD-DD
\* substring in its pdf comes after every issue with one, whatever the
\* digits of the date, and the dateless issues keep their input order.
C2_DatelessLast ==
  sorted # None =>
    LET input  == meta[1].issues
        output == sorted[1]
        dateless == [x \in Range(input) |-> ~Dated(x)]
    IN  /\ \A i, j \in 1..Len(output) :
             (~Dated(output[i]) /\ Dated(output[j])) => j < i
        /\ Filter(output, dateless) = Filter(input, dateless)

-----------------------------------------------------------------------------
(* Properties of the fragments.                                            *)

Rendered == HasRun("render")

\* The value of each content="..." attribute of a fragment, read up to the
\* next double quote.
ContentValues(frag) ==
  {LET from == i + Len(ContentOpen)
       to   == CHOOSE k \in from..Len(frag) :
                 /\ frag[k] = "\""
                 /\ \A j \in from..(k - 1) : frag[j] # "\""
   IN  SubSeq(frag, from, to - 1) : i \in {h \in 1..Len(frag) : MatchAt(frag, ContentOpen, h)}}

\* The key of a meta tag as it stands in a fragment: ="key" content="
TagKey(key) == AttrOpen \o key \o ContentOpen

DescriptionOr(issue, fallback) ==
  IF issue.description = None THEN fallback ELSE issue.description[1]

\* The card of one issue, every field of it escaped.
ExpectedCard(issue) ==
  CardImgOpen \o Escaped(issue.cover)
    \o CardAltOpen \o Escaped(issue.title)
    \o CardTitleOpen \o Escaped(issue.title)
    \o CardDescOpen \o Escaped(DescriptionOr(issue, DefaultCardDescription))
    \o CardPdfOpen \o Escaped(issue.pdf)
    \o CardClose

\* The opening tag of a card.
CardMarker ==
  <<"<","d","i","v"," ","c","l","a","s","s","=","\"","i","s","s","u","e","-","c","a","r","d","\"",">">>

\* C3: every input text interpolated into a fragment (cards, OG tags, logo)
\* has passed through escape_html first: titles, descriptions, cover and PDF
\* paths, site name, default description, base URL and logo path.
C3_AllEscaped ==
  Rendered =>
    /\ logo_html =
         (IF Site.logo = <<>> THEN <<>>
          ELSE LogoImgOpen \o Escaped(Site.logo) \o LogoAltOpen
                 \o Escaped(Site.site_name) \o LogoClose)
    /\ sorted[1] # <<>> =>
         LET image == Escaped(WithoutTrailingSlashes(Site.base_url)) \o Slash
                        \o Escaped(sorted[1][1].cover)
         IN  /\ Contains(og_tags, MetaTag(Property, OgImage, image))
             /\ Contains(og_tags, MetaTag(Name, TwitterImage, image))
             /\ Contains(og_tags, MetaTag(Property, OgSiteName, Escaped(Site.site_name)))
    /\ sorted[1] = <<>> =>
         Contains(og_tags, MetaTag(Property, OgTitle, Escaped(Site.site_name)))
    /\ \A i \in 1..Len(sorted[1]) : Contains(issue_cards, ExpectedCard(sorted[1][i]))

\* C5: with at least one issue the OG tags are built from the first issue of
\* the sorted sequence, which is a most recent one: og:title is
\* "{title} | {site name}", og:description and description carry the issue's
\* description or else the site's default description, og:image and
\* twitter:image are the base URL without its trailing slashes, "/", and the
\* cover path (title, site name, description and cover escaped).
C5_OgTagsOfLatest ==
  (Rendered /\ sorted[1] # <<>>) =>
    LET latest == sorted[1][1]
        desc   == Escaped(DescriptionOr(latest, Site.default_description))
        image  == WithoutTrailingSlashes(Site.base_url) \o Slash \o Escaped(latest.cover)
        title  == Escaped(latest.title) \o TitleSep \o Escaped(Site.site_name)
    IN  /\ latest \in Range(meta[1].issues)
        /\ \A x \in Range(meta[1].issues) : KeyGeq(KeyOf(latest), KeyOf(x))
        /\ MatchAt(og_tags, MetaTag(Property, OgTitle, title) \o Indent, 1)
        /\ Contains(og_tags, Indent \o MetaTag(Property, OgDescription, desc) \o Indent)
        /\ Contains(og_tags, Indent \o MetaTag(Property, OgImage, image) \o Indent)
        /\ Contains(og_tags, Indent \o MetaTag(Name, TwitterImage, image) \o Indent)
        /\ LET last == Indent \o MetaTag(Name, Description, desc)
           IN  MatchAt(og_tags, last, Len(og_tags) - Len(last) + 1)

C5_Witness ==
  /\ pc = "read_template"
  /\ Site = SiteLogo
  /\ meta[1].issues = <<IssueC, IssueA>>
  /\ sorted[1] = <<IssueA, IssueC>>
  /\ Contains(og_tags, <<"u",".","i","o","/","a",".","j","p","g","\"">>)

\* C6: build_issue_cards returns exactly the empty-state fragment, with no
\* card markup, if and only if there is no issue; otherwise exactly one card
\* per issue, joined by newlines, in the order of the sequence it is given,
\* each with the issue's description or else the fixed fallback text.
C6_IssueCards ==
  Rendered =>
    /\ (issue_cards = EmptyState) <=> (sorted[1] = <<>>)
    /\ Count(issue_cards, CardMarker) = Len(sorted[1])
    /\ sorted[1] # <<>> =>
         issue_cards = Join([i \in 1..Len(sorted[1]) |-> ExpectedCard(sorted[1][i])], Newline)

C6_Witness ==
  /\ pc = "read_template"
  /\ sorted[1] = <<IssueB, IssueA>>
  /\ Count(issue_cards, CardMarker) = 2
  /\ Count(issue_cards, DefaultCardDescription) = 1

\* C7: with zero issues the OG tags carry no og:image and no twitter:image
\* tag, the Twitter card is the plain summary card, and every value comes
\* from the site name, the site default description or the fixed text.
C7_DefaultOgTags ==
  (Rendered /\ sorted[1] = <<>>) =>
    /\ Count(og_tags, TagKey(OgImage)) = 0
    /\ Count(og_tags, TagKey(TwitterImage)) = 0
    /\ Count(og_tags, MetaTag(Name, TwitterCard, Summary)) = 1
    /\ Count(og_tags, TagKey(TwitterCard)) = 1
    /\ ContentValues(og_tags) \subseteq
         {Escaped(Site.site_name), Escaped(Site.default_description), Website, PaIn, Summary}
    /\ {Escaped(Site.site_name), Escaped(Site.default_description)}
         \subseteq ContentValues(og_tags)

C7_Witness ==
  /\ pc = "read_template"
  /\ sorted[1] = <<>>
  /\ Site = SiteLogo
  /\ Contains(og_tags, <<"P","&","a","m","p",";","T">>)

\* The value of the attribute that opens with `open` in frag, up to the next
\* double quote; <<>> if there is none.
AttrValue(frag, open) ==
  LET at == FindFrom(frag, open, 1)
      from == at + Len(open)
  IN  IF at = 0 \/ ~\E k \in from..Len(frag) : frag[k] = "\"" THEN <<>>
      ELSE LET to == CHOOSE k \in from..Len(frag) :
                       /\ frag[k] = "\""
                       /\ \A j \in from..(k - 1) : frag[j] # "\""
           IN  SubSeq(frag, from, to - 1)

\* C8: the logo fragment is empty when logo is empty; otherwise it holds
\* exactly one <img> tag, whose src is the logo value and whose alt text
\* names the site.
C8_LogoFragment ==
  Rendered =>
    /\ Site.logo = <<>> => logo_html = <<>>
    /\ Site.logo # <<>> =>
         /\ Count(logo_html, <<"<","i","m","g">>) = 1
         /\ AttrValue(logo_html, <<"s","r","c","=","\"">>) = Site.logo
         /\ MatchAt(AttrValue(logo_html, <<"a","l","t","=","\"">>), Site.site_name, 1)

-----------------------------------------------------------------------------
(* Properties of the substitution and of the run.                          *)

\* The template with each placeholder token that occurs in it replaced by
\* its fragment, in one pass from left to right; the text of a fragment is
\* never looked at.
RECURSIVE SubstituteOnce(_, _, _)
SubstituteOnce(t, i, frag) ==
  IF i > Len(t) THEN <<>>
  ELSE LET here == {tok \in DOMAIN frag : MatchAt(t, tok, i)}
       IN  IF here = {} THEN <<t[i]>> \o SubstituteOnce(t, i + 1, frag)
           ELSE LET tok == CHOOSE k \in here : TRUE
                IN  frag[tok] \o SubstituteOnce(t, i + Len(tok), frag)

\* C9: the document is the template with every occurrence of the four tokens
\* that appears in the template replaced by its fragment and the rest of the
\* template unchanged; token text inside a substituted fragment is not
\* replaced.
C9_NonRecursiveSubstitution ==
  final_html # None =>
    final_html[1] =
      SubstituteOnce(files.template[1], 1,
                     OG_TAGS :> og_tags @@ ISSUE_CARDS :> issue_cards
                       @@ PAGE_TITLE :> Site.site_name @@ LOGO :> logo_html)

Order == <<"read_metadata", "parse", "sort", "render", "read_template", "write">>

\* C10: the steps run in the order metadata read, parse, sort, render,
\* template read, output write, each at most once and only after all before
\* it succeeded; index.html changes only by the write; a failed metadata
\* read, parse or template read ends the run in the error state with
\* index.html as it was and nothing printed; the error state is final.
C10_Pipeline ==
  /\ Len(steps) <= Len(Order)
  /\ \A i \in 1..Len(steps) :
       /\ steps[i].step = Order[i]
       /\ i < Len(steps) => steps[i].ok
  /\ (pc = "error") <=> (steps # <<>> /\ ~steps[Len(steps)].ok)
  /\ files.index # Some(OldIndex) =>
       /\ Len(steps) = Len(Order)
       /\ final_html # None
       /\ files.template # None /\ files.metadata # None /\ meta # None
  /\ (pc = "error" /\ Len(steps) < Len(Order)) =>
       /\ files.index = Some(OldIndex)
       /\ stdout = <<>>
  /\ stdout # <<>> =>
       /\ pc = "done"
       /\ Len(steps) = Len(Order)
       /\ files.index = final_html
       /\ stdout = <<[line |-> "Successfully generated index.html",
                      issues |-> Len(meta[1].issues)]>>
  /\ pc = "error" => ~ENABLED Next

C10_Witness ==
  /\ pc = "error"
  /\ Len(steps) = 5
  /\ steps[5] = Step("read_template", FALSE)
  /\ Rendered
  /\ files.index = Some(OldIndex)

====
